---- MODULE Spec2Model ----
(***************************************************************************)
(* Model of the Fingrid open-data client: fetch_timeseries                 *)
(* (src/api_client.py), get_api_key (src/config.py), get_dataset_id        *)
(* (src/datasets.py), resolve_variable / fetch_and_process                 *)
(* (src/services/data_service.py) and format_table                         *)
(* (src/formatters/table_formatter.py).                                    *)
(*                                                                         *)
(* Python values are tagged records [k |-> kind, v |-> payload] so that    *)
(* values of different Python types can live in one collection.  A str is  *)
(* its text, over the ASCII characters a TLA+ string can hold (all but NUL *)
(* and the grave accent).  An int and a finite float are written in        *)
(* decimal digits, which every double has exactly, so that float(),        *)
(* repr() and the comparisons work on the value the double has.            *)
(***************************************************************************)
EXTENDS Integers, Sequences, FiniteSets, TLC

(* ------------------------------ bounds --------------------------------- *)

\* Largest lastPage value the simulated server reports.
MaxLastPage == 3

\* Longest list of raw records handed to the normalizer on its own.
MaxRaw == 3

\* Longest list of rows handed to format_table, and one less than the largest
\* --max-rows.
MaxTableRows == 5

\* Last page the model lets the loop request: the last one an integer
\* lastPage can make it reach, so that only a loop that no response stops is
\* ever held back.
MaxPage == MaxLastPage

(* --------------------------- Python values ----------------------------- *)

\* None
None == [k |-> "null", v |-> 0]
\* a key that is not in the dictionary
Absent == [k |-> "absent", v |-> 0]

IsDigit(c) == c \in {"0", "1", "2", "3", "4", "5", "6", "7", "8", "9"}
DigitValue ==
    ("0" :> 0) @@ ("1" :> 1) @@ ("2" :> 2) @@ ("3" :> 3) @@ ("4" :> 4) @@
    ("5" :> 5) @@ ("6" :> 6) @@ ("7" :> 7) @@ ("8" :> 8) @@ ("9" :> 9)

\* the digits a text of digits spells, the first one first
Digits(t) == SubSeq([p \in 1..Len(t) |-> DigitValue[SubSeq(t, p, p)]], 1, Len(t))

\* an int of any size: its sign and its decimal digits, the first one first
\* and no zero in front; 0 has no digit
PyLong(neg, digits) == [k |-> "int", v |-> [neg |-> neg, i |-> digits, f |-> <<>>]]
\* the int n
PyInt(n) ==
    PyLong(n < 0, IF n = 0 THEN <<>> ELSE Digits(ToString(IF n < 0 THEN -n ELSE n)))
\* a finite float: the sign and the exact decimal expansion of the double, i
\* the digits before and f the digits after the decimal point, i without a
\* zero in front and f without a zero at its end; 0.0 and -0.0 have no digit
PyDec(neg, i, f) == [k |-> "float", v |-> [neg |-> neg, i |-> i, f |-> f]]
\* the float whose value is the integer n, for n a double (|n| <= 2^53)
PyFloat(n) == PyDec(n < 0, PyInt(n).v.i, <<>>)
\* float("inf") and float("-inf"): sign is 1 or -1
PyInf(sign) == [k |-> "inf", v |-> sign]
\* float("nan"), which json.loads makes of the literal NaN
NaN == [k |-> "nan", v |-> 0]
PyBool(b) == [k |-> "bool", v |-> b]
\* a str: its text
PyStr(text) == [k |-> "str", v |-> text]
PyList(s) == [k |-> "list", v |-> s]
\* a dict: d maps names to values, Absent for a name that is no key, and keys
\* lists the names in the order the dict holds its keys in, which for
\* json.loads is the order of the document
PyDict(keys, d) ==
    [k |-> "dict", v |-> d, keys |-> SelectSeq(keys, LAMBDA f : d[f].k # "absent")]
\* datetime: date is <<year, month, day>>, time is <<hour, minute, second,
\* microsecond>>, tz is <<>> without tzinfo and otherwise the UTC offset as
\* <<seconds, microseconds>>, both of the sign of the offset
PyDateTime(date, time, tz) ==
    [k |-> "datetime", v |-> [date |-> date, time |-> time, tz |-> tz]]

\* dict.get(key, default)
DictGetDefault(d, key, default) ==
    IF key \in DOMAIN d /\ d[key].k # "absent" THEN d[key] ELSE default

\* dict.get(key): the value, or None when the key is not there
DictGet(d, key) == DictGetDefault(d, key, None)

(* ------------------------------ strings -------------------------------- *)

\* the character at position p of a text, counted from 0; "" outside it
Char(t, p) == IF p >= 0 /\ p < Len(t) THEN SubSeq(t, p + 1, p + 1) ELSE ""

\* t[n:] and t[:n] for 0 <= n
Drop(t, n) == IF n >= Len(t) THEN "" ELSE SubSeq(t, n + 1, Len(t))
Take(t, n) == IF n >= Len(t) THEN t ELSE IF n <= 0 THEN "" ELSE SubSeq(t, 1, n)

\* the least number of a set of naturals, 0 for the empty set
LeastOr0(S) == IF S = {} THEN 0 ELSE CHOOSE i \in S : \A j \in S : i <= j

\* t.replace(old, new) for a non-empty old; i is the place of the first old
\* in t, counted from 1, and 0 when there is none
RECURSIVE Replace(_, _, _)
ReplaceFrom(t, old, new, i) ==
    IF i = 0 THEN t
    ELSE Take(t, i - 1) \o new \o Replace(Drop(t, i + Len(old) - 1), old, new)
Replace(t, old, new) ==
    ReplaceFrom(t, old, new,
                LeastOr0({i \in 1..(Len(t) - Len(old) + 1) :
                            SubSeq(t, i, i + Len(old) - 1) = old}))

\* the position of the first character from p on that is no digit
SkipDigits(t, p) ==
    IF p > Len(t) THEN p ELSE LeastOr0({q \in p..Len(t) : ~IsDigit(Char(t, q))})

\* the number a text of digits spells; the empty text spells 0
RECURSIVE IntOf(_)
IntOf(t) ==
    IF Len(t) = 0 THEN 0
    ELSE IntOf(Take(t, Len(t) - 1)) * 10 + DigitValue[Char(t, Len(t) - 1)]

\* n in decimal digits, filled with zeros to the width w
RECURSIVE Pad(_, _)
Pad(n, w) ==
    IF w <= 1 /\ n < 10 THEN ToString(n) ELSE Pad(n \div 10, w - 1) \o ToString(n % 10)

\* the text of the digits d
RECURSIVE DigitText(_)
DigitText(d) ==
    IF Len(d) = 0 THEN ""
    ELSE IF Len(d) = 1 THEN ToString(d[1])
    ELSE DigitText(SubSeq(d, 1, Len(d) \div 2))
         \o DigitText(SubSeq(d, (Len(d) \div 2) + 1, Len(d)))

\* the ASCII characters in the order of their code points, from 1 to 127; a
\* blank holds the place of the grave accent (96), which a TLA+ string does
\* not take
Ascii ==
    "\t\n\f\r"
      \o " !\"#$%&'()*+,-./0123456789:;<=>?@ABCDEFGHIJKLMNOPQRSTUVWXYZ[\\]^_"
      \o " abcdefghijklmnopqrstuvwxyz{|}~"

\* ord(c), as a table
Code ==
    [c \in {SubSeq(Ascii, i, i) : i \in 1..Len(Ascii)} |->
        CHOOSE i \in 1..Len(Ascii) :
            /\ SubSeq(Ascii, i, i) = c
            /\ \A j \in 1..(i - 1) : SubSeq(Ascii, j, j) # c]

\* a < b on two texts: by the code points, a proper prefix first
RECURSIVE TextLess(_, _)
TextLess(a, b) ==
    IF Len(b) = 0 THEN FALSE
    ELSE IF Len(a) = 0 THEN TRUE
    ELSE IF Char(a, 0) = Char(b, 0) THEN TextLess(Drop(a, 1), Drop(b, 1))
    ELSE Code[Char(a, 0)] < Code[Char(b, 0)]

\* str.lower() on ASCII text: a capital letter (65 to 90) becomes the
\* character 32 code points after it
RECURSIVE LowerText(_)
LowerText(t) ==
    IF Len(t) = 0 THEN ""
    ELSE (IF Code[Char(t, 0)] >= 65 /\ Code[Char(t, 0)] <= 90
          THEN SubSeq(Ascii, Code[Char(t, 0)] + 32, Code[Char(t, 0)] + 32)
          ELSE Char(t, 0))
         \o LowerText(Drop(t, 1))

\* Python truth value of a value (bool(x))
Truthy(x) ==
    CASE x.k = "null" -> FALSE
      [] x.k \in {"int", "float"} -> Len(x.v.i) + Len(x.v.f) > 0
      [] x.k = "bool" -> x.v
      [] x.k = "str" -> Len(x.v) > 0
      [] x.k = "list" -> Len(x.v) > 0
      [] x.k = "dict" -> Len(x.keys) > 0
      [] OTHER -> TRUE

\* a or b
PyOr(a, b) == IF Truthy(a) THEN a ELSE b

\* the outcome of an expression that raises the exception exc
Raise(exc) == [k |-> "raise", v |-> exc, status_code |-> 0]
ValueError == Raise("ValueError")
TypeError == Raise("TypeError")
AttributeError == Raise("AttributeError")

(* ------------------------------ doubles -------------------------------- *)

\* A magnitude is a record [i, f] of the decimal digits before and after the
\* decimal point, i without a zero in front and f without a zero at its end.

\* the magnitude of the digits i before and f after the decimal point
Magnitude(i, f) ==
    [i |-> IF \A k \in 1..Len(i) : i[k] = 0 THEN <<>>
           ELSE SubSeq(i, LeastOr0({k \in 1..Len(i) : i[k] # 0}), Len(i)),
     f |-> IF \A k \in 1..Len(f) : f[k] = 0 THEN <<>>
           ELSE SubSeq(f, 1, Len(f) - LeastOr0({Len(f) - k : k \in {m \in 1..Len(f) : f[m] # 0}}))]

\* x < y on two magnitudes
MagnitudeLess(x, y) ==
    LET a == x.i \o x.f
        b == y.i \o y.f
        n == IF Len(a) < Len(b) THEN Len(a) ELSE Len(b)
        k == LeastOr0({m \in 1..n : a[m] # b[m]})
    IN \/ Len(x.i) < Len(y.i)
       \/ Len(x.i) = Len(y.i) /\ (IF k = 0 THEN Len(a) < Len(b) ELSE a[k] < b[k])

\* 2 * x: every digit doubled, with the carry of the digit after it
Twice(x) ==
    LET d == <<0>> \o x.i \o x.f
        r == SubSeq([k \in 1..Len(d) |->
                       (2 * d[k] + (IF k < Len(d) /\ d[k + 1] >= 5 THEN 1 ELSE 0)) % 10],
                    1, Len(d))
    IN [i |-> SubSeq(r, IF r[1] = 0 THEN 2 ELSE 1, Len(x.i) + 1),
        f |-> SubSeq(r, Len(x.i) + 2, IF r[Len(r)] = 0 THEN Len(r) - 1 ELSE Len(r))]

\* x / 2: every digit halved, with the remainder of the digit before it
Half(x) ==
    LET d == x.i \o x.f \o <<0>>
        r == SubSeq([k \in 1..Len(d) |->
                       (d[k] + (IF k > 1 /\ d[k - 1] % 2 = 1 THEN 10 ELSE 0)) \div 2],
                    1, Len(d))
    IN [i |-> SubSeq(r, IF Len(x.i) > 0 /\ r[1] = 0 THEN 2 ELSE 1, Len(x.i)),
        f |-> SubSeq(r, Len(x.i) + 1, IF r[Len(r)] = 0 THEN Len(r) - 1 ELSE Len(r))]

\* x * 2^j
RECURSIVE TimesPow2(_, _)
TimesPow2(x, j) ==
    IF Len(x.i) + Len(x.f) = 0 \/ j = 0 THEN x
    ELSE IF j = 1 THEN Twice(x)
    ELSE IF j = -1 THEN Half(x)
    ELSE TimesPow2(TimesPow2(x, j \div 2), j - (j \div 2))

\* 2^53
Two53 == [i |-> <<9, 0, 0, 7, 1, 9, 9, 2, 5, 4, 7, 4, 0, 9, 9, 2>>, f |-> <<>>]

\* y * 2^e brought into the form of a double: [x |-> z, j |-> n] with
\* z * 2^n = y * 2^e and 2^52 <= z < 2^53, or n = -1074 and z < 2^52 (a
\* subnormal, whose exponent is the least one)
RECURSIVE Scaled(_, _)
Scaled(y, e) ==
    IF ~MagnitudeLess(y, Two53) THEN Scaled(Half(y), e + 1)
    ELSE IF e > -1074 /\ MagnitudeLess(Twice(y), Two53) THEN Scaled(Twice(y), e - 1)
    ELSE [x |-> y, j |-> e]

\* the digits d plus one in the last place
Succ(d) ==
    LET e == <<0>> \o d
        r == SubSeq([k \in 1..Len(e) |->
                       (e[k] + (IF \A m \in (k + 1)..Len(e) : e[m] = 9 THEN 1 ELSE 0)) % 10],
                    1, Len(e))
    IN SubSeq(r, IF r[1] = 0 THEN 2 ELSE 1, Len(r))

\* the digits of x * 10^p rounded to an integer, a tie to the even one
RoundedAt(x, p) ==
    LET kept == x.i \o SubSeq(x.f \o [k \in 1..p |-> 0], 1, p)
        rest == SubSeq(x.f, p + 1, Len(x.f))
        up == /\ Len(rest) > 0
              /\ \/ rest[1] > 5
                 \/ rest[1] = 5 /\ Len(rest) > 1
                 \/ rest[1] = 5 /\ Len(kept) > 0 /\ kept[Len(kept)] % 2 = 1
    IN IF up THEN Succ(kept) ELSE kept

\* the digits d, of a number above 0, minus one in the last place
Pred(d) ==
    LET r == SubSeq([k \in 1..Len(d) |->
                       (d[k] + 10 - (IF \A m \in (k + 1)..Len(d) : d[m] = 0 THEN 1 ELSE 0)) % 10],
                    1, Len(d))
    IN SubSeq(r, IF r[1] = 0 THEN 2 ELSE 1, Len(r))

\* the magnitude x in the form of a double: [x |-> z, j |-> n] with
\* z * 2^n = x and z of 53 bits before the point (fewer for a subnormal).
\* The power of two tried first is an estimate from the number of digits of
\* x: a decimal digit is a little more than 33219 / 10000 bits
ToBinary(x) ==
    LET bits == IF Len(x.i) > 0 THEN (((Len(x.i) - 1) * 33219) \div 10000) - 53
                ELSE -(52 + ((LeastOr0({k \in 1..Len(x.f) : x.f[k] # 0}) - 1) * 33219)
                              \div 10000)
        e == IF bits < -1074 THEN -1074 ELSE bits
    IN Scaled(TimesPow2(x, -e), e)

\* the float of the sign neg nearest to the magnitude x, a tie to the one
\* with the even significand: x is written as z * 2^j with a z of 53 bits
\* before the point, z is rounded to an integer m, and the float is m * 2^j,
\* or inf when that is 2^1024. An integer of up to 15 digits is a double
\* itself
NearestDouble(neg, x) ==
    IF Len(x.f) = 0 /\ Len(x.i) <= 15 THEN PyDec(neg, x.i, x.f)
    ELSE LET s == ToBinary(x)
             m == RoundedAt(s.x, 0)
             r == TimesPow2([i |-> m, f |-> <<>>], s.j)
         IN IF s.j > 971 \/ (s.j = 971 /\ m = Two53.i) THEN PyInf(IF neg THEN -1 ELSE 1)
            ELSE PyDec(neg, r.i, r.f)

\* the magnitude of the digits d with the decimal point after the first
\* `point` of them (before them when point is not positive)
Placed(d, point) ==
    IF point <= 0 THEN Magnitude(<<>>, [k \in 1..(-point) |-> 0] \o d)
    ELSE IF point >= Len(d) THEN Magnitude(d \o [k \in 1..(point - Len(d)) |-> 0], <<>>)
    ELSE Magnitude(SubSeq(d, 1, point), SubSeq(d, point + 1, Len(d)))

(* ------------------------ datetime.fromisoformat ------------------------ *)

\* parse_digits: the number the n characters from p on spell, -1 when one of
\* them is no digit
RECURSIVE parse_digits(_, _, _)
parse_digits(t, p, n) ==
    IF n = 0 THEN 0
    ELSE LET front == parse_digits(t, p, n - 1)
             c == Char(t, p + n - 1)
         IN IF front < 0 \/ ~IsDigit(c) THEN -1 ELSE front * 10 + DigitValue[c]

\* _find_isoformat_datetime_separator: the length of the date at the front
\* of a text of 7 or more characters
find_isoformat_datetime_separator(t) ==
    LET n == Len(t) IN
    IF n = 7 THEN 7
    ELSE IF Char(t, 4) = "-"
    THEN IF Char(t, 5) = "W"
         THEN IF n < 8 THEN -1
              ELSE IF n > 8 /\ Char(t, 8) = "-"
                   THEN IF n = 9 THEN -1
                        ELSE IF n > 10 /\ IsDigit(Char(t, 10)) THEN 8 ELSE 10
                   ELSE 8
         ELSE 10
    ELSE IF Char(t, 4) = "W"
         THEN LET idx == SkipDigits(t, 7)
              IN IF idx < 9 THEN idx ELSE IF idx % 2 = 0 THEN 7 ELSE 8
         ELSE 8

is_leap(y) == y % 4 = 0 /\ (y % 100 # 0 \/ y % 400 = 0)
DaysInMonth == <<31, 28, 31, 30, 31, 30, 31, 31, 30, 31, 30, 31>>
DaysBeforeMonth == <<0, 31, 59, 90, 120, 151, 181, 212, 243, 273, 304, 334>>
days_in_month(y, m) == IF m = 2 /\ is_leap(y) THEN 29 ELSE DaysInMonth[m]
days_before_month(y, m) == DaysBeforeMonth[m] + (IF m > 2 /\ is_leap(y) THEN 1 ELSE 0)
days_before_year(year) ==
    LET y == year - 1 IN y * 365 + (y \div 4) - (y \div 100) + (y \div 400)
ymd_to_ord(y, m, d) == days_before_year(y) + days_before_month(y, m) + d

iso_week1_monday(y) ==
    LET first_day == ymd_to_ord(y, 1, 1)
        first_weekday == (first_day + 6) % 7
        week1_monday == first_day - first_weekday
    IN IF first_weekday > 3 THEN week1_monday + 7 ELSE week1_monday

\* ord_to_ymd: the date <<year, month, day>> of a proleptic Gregorian ordinal
ord_to_ymd(ordinal) ==
    LET o == ordinal - 1
        n400 == o \div 146097
        r400 == o % 146097
        n100 == r400 \div 36524
        r100 == r400 % 36524
        n4 == r100 \div 1461
        r4 == r100 % 1461
        n1 == r4 \div 365
        n == r4 % 365
        y == n400 * 400 + 1 + n100 * 100 + n4 * 4 + n1
        leap == n1 = 3 /\ (n4 # 24 \/ n100 = 3)
        m0 == (n + 50) \div 32
        before0 == DaysBeforeMonth[m0] + (IF m0 > 2 /\ leap THEN 1 ELSE 0)
        m == IF before0 > n THEN m0 - 1 ELSE m0
        before == IF before0 > n
                  THEN before0 - (DaysInMonth[m] + (IF m = 2 /\ leap THEN 1 ELSE 0))
                  ELSE before0
    IN IF n1 = 4 \/ n100 = 4 THEN <<y - 1, 12, 31>> ELSE <<y, m, n - before + 1>>

\* iso_to_ymd: the date of day d of ISO week w of year y, <<>> for a week or
\* a day there is none of
iso_to_ymd(y, w, d) ==
    LET first_weekday == (ymd_to_ord(y, 1, 1) + 6) % 7
        week_ok == (w > 0 /\ w < 53)
                     \/ (w = 53 /\ (first_weekday = 3 \/ (first_weekday = 2 /\ is_leap(y))))
    IN IF ~week_ok \/ d <= 0 \/ d >= 8 THEN <<>>
       ELSE ord_to_ymd(iso_week1_monday(y) + (w - 1) * 7 + d - 1)

\* parse_isoformat_date: <<year, month, day>> as written at the front of t,
\* <<>> when there is no date; len is the length of the date
parse_isoformat_date(t, len) ==
    LET year == parse_digits(t, 0, 4)
        uses_separator == Char(t, 4) = "-"
        p == IF uses_separator THEN 5 ELSE 4
        iso_week == parse_digits(t, p + 1, 2)
        has_day == p + 3 < len
        pd == IF uses_separator THEN p + 4 ELSE p + 3
        iso_day == IF has_day THEN parse_digits(t, pd, 1) ELSE 1
        month == parse_digits(t, p, 2)
        q == IF uses_separator THEN p + 3 ELSE p + 2
        day == parse_digits(t, q, 2)
    IN IF year < 0 THEN <<>>
       ELSE IF Char(t, p) = "W"
       THEN IF iso_week < 0 THEN <<>>
            ELSE IF has_day /\ uses_separator /\ Char(t, p + 3) # "-" THEN <<>>
            ELSE IF iso_day < 0 THEN <<>>
            ELSE iso_to_ymd(year, iso_week, iso_day)
       ELSE IF month < 0 THEN <<>>
       ELSE IF uses_separator /\ Char(t, p + 2) # "-" THEN <<>>
       ELSE IF day < 0 THEN <<>>
       ELSE <<year, month, day>>

\* what parse_hh_mm_ss_ff returns: rv is 0 at the end of the text, 1 with
\* text left over and negative for a text it cannot read
TimeFields(rv, vals, us) ==
    [rv |-> rv,
     h |-> IF Len(vals) >= 1 THEN vals[1] ELSE 0,
     m |-> IF Len(vals) >= 2 THEN vals[2] ELSE 0,
     s |-> IF Len(vals) >= 3 THEN vals[3] ELSE 0,
     us |-> us]

\* the fractional components of parse_hh_mm_ss_ff: up to six digits from p
\* on, further digits skipped
parse_fraction(t, p, p_end, vals) ==
    LET len_remains == p_end - p
        to_parse == IF len_remains >= 6 THEN 6 ELSE len_remains
        digits == parse_digits(t, p, to_parse)
        correction == <<100000, 10000, 1000, 100, 10, 1>>
        rest == SkipDigits(t, p + to_parse)
    IN IF digits < 0 THEN TimeFields(-3, <<>>, 0)
       ELSE TimeFields(IF Char(t, rest) # "" THEN 1 ELSE 0, vals,
                       digits * correction[to_parse])

\* the loop of parse_hh_mm_ss_ff from component i (0, 1, 2) on: two digits
\* each, with or without ":" between them as after the first
RECURSIVE parse_hh_mm_ss(_, _, _, _, _, _)
parse_hh_mm_ss(t, p, p_end, i, has_separator, vals) ==
    LET val == parse_digits(t, p, 2)
        c == Char(t, p + 2)
        has == IF i = 0 THEN c = ":" ELSE has_separator
        got == Append(vals, val)
    IN IF val < 0 THEN TimeFields(-3, <<>>, 0)
       ELSE IF p + 3 >= p_end THEN TimeFields(IF c # "" THEN 1 ELSE 0, got, 0)
       ELSE IF has /\ c = ":"
       THEN IF i = 2 THEN parse_fraction(t, p + 3, p_end, got)
            ELSE parse_hh_mm_ss(t, p + 3, p_end, i + 1, has, got)
       ELSE IF c = "." \/ c = "," THEN parse_fraction(t, p + 3, p_end, got)
       ELSE IF ~has
       THEN IF i = 2 THEN parse_fraction(t, p + 2, p_end, got)
            ELSE parse_hh_mm_ss(t, p + 2, p_end, i + 1, has, got)
       ELSE TimeFields(-4, <<>>, 0)

parse_hh_mm_ss_ff(t, p, p_end) == parse_hh_mm_ss(t, p, p_end, 0, TRUE, <<>>)

\* the position of the first "Z", "+" or "-" of a text, its length when
\* there is none
tzinfo_pos(t) ==
    LeastOr0({i \in 1..(Len(t) + 1) :
                i = Len(t) + 1 \/ SubSeq(t, i, i) \in {"Z", "+", "-"}}) - 1

\* no time of day
NoTime == [ok |-> FALSE, time |-> <<>>, tz |-> <<>>]
TimeOfDay(time, tz) == [ok |-> TRUE, time |-> time, tz |-> tz]

\* the time of day and the offset of a text whose tzinfo starts at tz: hms is
\* what parse_hh_mm_ss_ff gives for the text before it, off for the text
\* after its sign
time_and_offset(t, tz, hms, off) ==
    IF hms.rv < 0 THEN NoTime
    ELSE IF tz >= Len(t)
    THEN (IF hms.rv = 1 THEN NoTime ELSE TimeOfDay(<<hms.h, hms.m, hms.s, hms.us>>, <<>>))
    ELSE IF Char(t, tz) = "Z"
    THEN (IF Char(t, tz + 1) # "" THEN NoTime
          ELSE TimeOfDay(<<hms.h, hms.m, hms.s, hms.us>>, <<0, 0>>))
    ELSE IF off.rv # 0 THEN NoTime
    ELSE IF Char(t, tz) = "-"
    THEN TimeOfDay(<<hms.h, hms.m, hms.s, hms.us>>,
                   <<-(off.h * 3600 + off.m * 60 + off.s), -off.us>>)
    ELSE TimeOfDay(<<hms.h, hms.m, hms.s, hms.us>>,
                   <<off.h * 3600 + off.m * 60 + off.s, off.us>>)

\* parse_isoformat_time with the tzinfo found at position tz
parse_time_and_offset(t, tz) ==
    time_and_offset(t, tz, parse_hh_mm_ss_ff(t, 0, tz), parse_hh_mm_ss_ff(t, tz + 1, Len(t)))

\* parse_isoformat_time on the text after the separator: the time and the
\* offset it gives, NoTime for a text that is no time
parse_isoformat_time(t) == parse_time_and_offset(t, tzinfo_pos(t))

\* the datetime of a parsed date and a parsed time, or ValueError: a
\* timezone takes offsets strictly between -24 and 24 hours, and a zero
\* offset is timezone.utc whatever its microseconds
combine(date, parsed) ==
    IF Len(date) = 0 \/ ~parsed.ok THEN ValueError
    ELSE IF Len(parsed.tz) = 2 /\ (parsed.tz[1] <= -86400 \/ parsed.tz[1] >= 86400)
    THEN ValueError
    ELSE IF date[1] < 1 \/ date[1] > 9999 \/ date[2] < 1 \/ date[2] > 12
            \/ date[3] < 1 \/ date[3] > days_in_month(date[1], date[2])
            \/ parsed.time[1] > 23 \/ parsed.time[2] > 59 \/ parsed.time[3] > 59
    THEN ValueError
    ELSE PyDateTime(date, parsed.time,
                    IF Len(parsed.tz) = 2 /\ parsed.tz[1] = 0 THEN <<0, 0>> ELSE parsed.tz)

\* fromisoformat on a text of 7 or more characters whose date has the length
\* separator_location
fromisoformat_at(t, separator_location) ==
    combine(parse_isoformat_date(t, separator_location),
            IF Len(t) > separator_location
            THEN parse_isoformat_time(Drop(t, separator_location + 1))
            ELSE TimeOfDay(<<0, 0, 0, 0>>, <<>>))

\* datetime.fromisoformat(text) of Python 3.11: the datetime, or ValueError
fromisoformat(t) ==
    IF Len(t) < 7 THEN ValueError
    ELSE fromisoformat_at(t, find_isoformat_datetime_separator(t))

(* ------------------- the records of the simulated pages ---------------- *)

\* one raw record of a page, its keys in the order of the API's documents
Rec(st, et, value, did) ==
    PyDict(<<"datasetId", "startTime", "endTime", "value">>,
           [startTime |-> st, endTime |-> et, value |-> value, datasetId |-> did])

\* the records the fetch loop's pages carry
FetchRecords ==
    { Rec(PyStr("2024-01-01T01:00:00Z"), PyStr("2024-01-01T02:00:00Z"), PyFloat(5), PyInt(181)),
      Rec(PyStr("2024-01-01T01:00:00"), Absent, PyInt(7), Absent),
      Rec(PyStr("2024-01-01T00:00:00Z"), Absent, PyStr("abc"), Absent) }

\* the elements a page's data array can hold
RawRecords ==
    FetchRecords \cup
    { Rec(PyStr("2024-01-01T00:00:00.000Z"), Absent, PyStr("7"), None),
      Rec(Absent, Absent, PyFloat(5), Absent),
      Rec(PyStr("2024-01-01T01:00:00"), Absent, None, Absent),
      Rec(PyStr("abc"), Absent, PyFloat(5), Absent),
      Rec(PyInt(5), Absent, PyFloat(5), Absent),
      Rec(PyInt(3), Absent, PyFloat(7), Absent),
      Rec(NaN, Absent, PyFloat(5), Absent),
      PyStr("abc"),
      Rec(PyStr("2024-01-01T02:00:00+02:00"), Absent, PyFloat(5), Absent),
      Rec(PyStr("2024-01-01T01:00:00Z"), PyStr("abc"), PyFloat(5), Absent),
      Rec(PyStr("2024-01-01T02:00:00"), PyInt(3), PyFloat(5), Absent),
      Rec(PyStr("2024-01-01T02:00:00Z"), Absent, PyLong(FALSE, <<1>> \o [n \in 1..309 |-> 0]), Absent),
      Rec(PyFloat(3), Absent, PyFloat(5), Absent),
      Rec(PyBool(TRUE), Absent, PyFloat(5), Absent),
      Rec(PyList(<<PyInt(1), PyStr("a")>>), Absent, PyFloat(1), Absent),
      Rec(PyList(<<NaN>>), Absent, PyFloat(1), Absent),
      Rec(PyList(<<PyInt(1), PyInt(2)>>), Absent, PyFloat(1), Absent),
      Rec(PyDict(<<>>, <<>>), Absent, PyFloat(1), Absent) }

\* seven records with the start times 5, 3, NaN, 3, 3, 3 and 3.0, none of
\* them a string: no shorter list makes the binary insertion of list.sort,
\* misled by the NaN, put a record in front of an earlier one with an equal
\* start time
ReorderedRun ==
    LET five == Rec(PyInt(5), Absent, PyFloat(5), Absent)
        three == Rec(PyInt(3), Absent, PyFloat(7), Absent)
    IN <<five, three, Rec(NaN, Absent, PyFloat(5), Absent), three, three, three,
         Rec(PyFloat(3), Absent, PyFloat(5), Absent)>>

\* the records of the pages whose rows the table shows: distinct start times
\* and distinct values
TableRecords ==
    { Rec(PyStr("2024-01-01T00:00:00"), Absent, PyInt(1), Absent),
      Rec(PyStr("2024-01-01T00:00:00.500"), Absent, PyInt(2), Absent),
      Rec(PyStr("2024-01-01T01:00:00Z"), Absent, PyInt(3), Absent),
      Rec(PyStr("2024-01-01T01:00:00.500Z"), Absent, PyInt(4), Absent),
      Rec(PyStr("2024-01-01T02:00:00"), Absent, PyInt(5), Absent),
      Rec(PyStr("2024-01-01T02:00:00.500"), Absent, PyInt(6), Absent) }

\* try: first, except ValueError: fromisoformat of the text t
OrFromIsoFormat(first, t) == IF first.k # "raise" THEN first ELSE fromisoformat(t)

\* the two fromisoformat attempts on the text the replace calls left
ParseReplaced(t) == OrFromIsoFormat(fromisoformat(Replace(t, "+00:00", "")), t)

\* the two replace calls and the two fromisoformat attempts on the startTime
\* and endTime strings of the simulated records, each string parsed once
ParsedTimes ==
    [s \in {t.v : t \in {u \in {r.v[f] : r \in {x \in RawRecords \cup TableRecords : x.k = "dict"},
                                         f \in {"startTime", "endTime"}} : u.k = "str"}}
       |-> ParseReplaced(Replace(Replace(s, "Z", "+00:00"), ".000", ""))]

\* the two replace calls and the two fromisoformat attempts applied to a
\* startTime / endTime string
ParseIso(s) ==
    IF s \in DOMAIN ParsedTimes THEN ParsedTimes[s]
    ELSE ParseReplaced(Replace(Replace(s, "Z", "+00:00"), ".000", ""))

(* ---------------------- Response Normalizer ----------------------------- *)

\* text.strip() as float() does it on ASCII text: blank, tab, line feed,
\* vertical tab, form feed and carriage return go from both ends
RECURSIVE Strip(_)
Strip(t) ==
    IF Char(t, 0) \in {" ", "\t", "\n", "", "\f", "\r"} THEN Strip(Drop(t, 1))
    ELSE IF Char(t, Len(t) - 1) \in {" ", "\t", "\n", "", "\f", "\r"}
    THEN Strip(Take(t, Len(t) - 1))
    ELSE t

\* an underscore of a numeric text stands between two digits
UnderscoresOk(t) ==
    \A p \in 0..(Len(t) - 1) :
        Char(t, p) = "_" => (IsDigit(Char(t, p - 1)) /\ IsDigit(Char(t, p + 1)))

\* the float of the sign neg and the decimal digits d with the decimal point
\* after the first `point` of them: the double nearest to that number. first
\* is the place of the first digit that is not 0; a number below 10^-324 is
\* nearer to 0 than to the least double and a number from 10^309 on is beyond
\* the largest
DecimalFloat(neg, d, point) ==
    LET first == LeastOr0({k \in 1..Len(d) : d[k] # 0})
    IN IF first = 0 \/ point - (first - 1) < -323 THEN PyDec(neg, <<>>, <<>>)
       ELSE IF point - (first - 1) > 309 THEN PyInf(IF neg THEN -1 ELSE 1)
       ELSE NearestDouble(neg, Placed(d, point))

\* the exponent a text of digits spells, with the sign neg; with more than
\* nine digits after its zeros in front it is MAX_ABS_EXP, 1100000000
ExponentOf(neg, t) ==
    LET e == IF Len(Magnitude(Digits(t), <<>>).i) > 9 THEN 1100000000 ELSE IntOf(t)
    IN IF neg THEN -e ELSE e

\* the float of the digits ip before and fp after the decimal point with the
\* exponent the digits spell, ValueError for an exponent without digits or
\* with anything after them
float_scaled(neg, ip, fp, exp_neg, digits) ==
    IF Len(digits) = 0 \/ SkipDigits(digits, 0) # Len(digits) THEN ValueError
    ELSE DecimalFloat(neg, Digits(ip \o fp), Len(ip) + ExponentOf(exp_neg, digits))

\* the float of the digits ip and fp followed by rest: nothing, or an
\* exponent
float_exponent(neg, ip, fp, rest) ==
    IF Len(ip) = 0 /\ Len(fp) = 0 THEN ValueError
    ELSE IF Len(rest) = 0 THEN DecimalFloat(neg, Digits(ip \o fp), Len(ip))
    ELSE IF Char(rest, 0) \notin {"e", "E"} THEN ValueError
    ELSE float_scaled(neg, ip, fp, Char(rest, 1) = "-",
                      Drop(rest, IF Char(rest, 1) \in {"+", "-"} THEN 2 ELSE 1))

\* the float of a text whose integer digits end at q and whose fraction ends
\* at r
float_fraction(neg, t, q, r) ==
    float_exponent(neg, Take(t, q),
                   IF Char(t, q) = "." THEN Take(Drop(t, q + 1), r - q - 1) ELSE "",
                   Drop(t, r))

\* the float of a decimal text whose integer digits end at q
float_decimal(neg, t, q) ==
    float_fraction(neg, t, q, IF Char(t, q) = "." THEN SkipDigits(t, q + 1) ELSE q)

\* the float of a text without sign: inf, infinity or nan in any case (none
\* of them longer than 8 characters), or a decimal
float_unsigned(neg, t) ==
    IF Len(t) <= 8 /\ LowerText(t) \in {"inf", "infinity"} THEN PyInf(IF neg THEN -1 ELSE 1)
    ELSE IF Len(t) <= 8 /\ LowerText(t) = "nan" THEN NaN
    ELSE float_decimal(neg, t, SkipDigits(t, 0))

\* the float of a text without whitespace and underscores
float_signed(t) ==
    float_unsigned(Char(t, 0) = "-", Drop(t, IF Char(t, 0) \in {"+", "-"} THEN 1 ELSE 0))

\* float(text): whitespace stripped, underscores between digits dropped, a
\* sign, then inf, infinity or nan in any case, or digits with at most one
\* decimal point and an exponent
float_from_string(text) ==
    IF ~UnderscoresOk(Strip(text)) THEN ValueError
    ELSE float_signed(Replace(Strip(text), "_", ""))

\* float(value); float(n) of an int is the double nearest to n, and
\* OverflowError when n is beyond the doubles
ToFloat(value) ==
    LET float_from_long(f) == IF f.k = "inf" THEN Raise("OverflowError") ELSE f
    IN CASE value.k \in {"float", "inf", "nan"} -> value
         [] value.k = "int" ->
               float_from_long(DecimalFloat(value.v.neg, value.v.i, Len(value.v.i)))
         [] value.k = "bool" -> PyFloat(IF value.v THEN 1 ELSE 0)
         [] value.k = "str" -> float_from_string(value.v)
         [] OTHER -> TypeError

\* the kinds of value that are Python numbers
Numbers == {"int", "float", "inf", "bool", "nan"}

\* sign and magnitude of a finite number
Decimal(x) == IF x.k = "bool" THEN PyInt(IF x.v THEN 1 ELSE 0).v ELSE x.v

\* d is 0
IsZero(d) == Len(d.i) + Len(d.f) = 0

\* x < y on two decimals
DecimalLess(x, y) ==
    IF IsZero(x) /\ IsZero(y) THEN FALSE
    ELSE IF x.neg # y.neg THEN x.neg
    ELSE IF x.neg THEN MagnitudeLess(y, x)
    ELSE MagnitudeLess(x, y)

\* a < b on two numbers, an int compared by its exact value; every
\* comparison with NaN is false
NumLess(a, b) ==
    IF a.k = "nan" \/ b.k = "nan" THEN FALSE
    ELSE IF a.k = "inf" THEN a.v < 0 /\ ~(b.k = "inf" /\ b.v < 0)
    ELSE IF b.k = "inf" THEN b.v > 0
    ELSE DecimalLess(Decimal(a), Decimal(b))

\* x == y on two decimals; 0.0 and -0.0 are equal
SameDecimal(x, y) == (IsZero(x) /\ IsZero(y)) \/ x = y

\* a == b on two numbers
NumEq(a, b) ==
    IF a.k \in {"nan", "inf"} \/ b.k \in {"nan", "inf"}
    THEN a.k = "inf" /\ b.k = "inf" /\ a.v = b.v
    ELSE SameDecimal(Decimal(a), Decimal(b))

\* <<day, second, microsecond>> of a day and seconds and microseconds from
\* its start, which may lie outside the day
InstantOf(day, secs, us) ==
    <<day + ((secs + (us \div 1000000)) \div 86400),
      (secs + (us \div 1000000)) % 86400, us % 1000000>>

\* the instant of a datetime as <<day, second, microsecond>>: the day is
\* the ordinal of the date, the offset of an aware datetime is taken off
Instant(dt) ==
    IF Len(dt.tz) = 2
    THEN InstantOf(ymd_to_ord(dt.date[1], dt.date[2], dt.date[3]),
                   dt.time[1] * 3600 + dt.time[2] * 60 + dt.time[3] - dt.tz[1],
                   dt.time[4] - dt.tz[2])
    ELSE InstantOf(ymd_to_ord(dt.date[1], dt.date[2], dt.date[3]),
                   dt.time[1] * 3600 + dt.time[2] * 60 + dt.time[3], dt.time[4])

\* a < b on two instants
InstantLess(a, b) ==
    \/ a[1] < b[1]
    \/ a[1] = b[1] /\ a[2] < b[2]
    \/ a[1] = b[1] /\ a[2] = b[2] /\ a[3] < b[3]

\* the keys of a dict
Keys(d) == {f \in DOMAIN d : d[f].k # "absent"}

\* a == b; the elements of two lists or dicts are compared as the containers
\* compare them, "a is b or a == b", and every NaN inside the decoded JSON is
\* the one object json.loads hands out for the constant NaN; two dicts are
\* equal whatever the order of their keys
RECURSIVE PyEq(_, _)
PyEq(a, b) ==
    CASE a.k \in Numbers /\ b.k \in Numbers -> NumEq(a, b)
      [] a.k = "str" /\ b.k = "str" -> a.v = b.v
      [] a.k = "null" /\ b.k = "null" -> TRUE
      [] a.k = "list" /\ b.k = "list" ->
            /\ Len(a.v) = Len(b.v)
            /\ \A i \in 1..Len(a.v) :
                    \/ a.v[i].k = "nan" /\ b.v[i].k = "nan"
                    \/ PyEq(a.v[i], b.v[i])
      [] a.k = "dict" /\ b.k = "dict" ->
            /\ Keys(a.v) = Keys(b.v)
            /\ \A f \in Keys(a.v) :
                    \/ a.v[f].k = "nan" /\ b.v[f].k = "nan"
                    \/ PyEq(a.v[f], b.v[f])
      [] a.k = "datetime" /\ b.k = "datetime" ->
            Len(a.v.tz) = Len(b.v.tz) /\ Instant(a.v) = Instant(b.v)
      [] OTHER -> FALSE

\* the first position at which two lists differ, 0 when one is the front of
\* the other
FirstDifference(a, b) ==
    LeastOr0({i \in 1..(IF Len(a) < Len(b) THEN Len(a) ELSE Len(b)) :
                ~(a[i].k = "nan" /\ b[i].k = "nan") /\ ~PyEq(a[i], b[i])})

\* whether Python defines a < b for two sort keys; i is the first position
\* at which two lists differ
RECURSIVE Comparable(_, _)
ComparableAt(a, b, i) == i = 0 \/ Comparable(a[i], b[i])
Comparable(a, b) ==
    CASE a.k = "datetime" /\ b.k = "datetime" -> Len(a.v.tz) = Len(b.v.tz)
      [] a.k \in Numbers /\ b.k \in Numbers -> TRUE
      [] a.k = "str" /\ b.k = "str" -> TRUE
      [] a.k = "list" /\ b.k = "list" -> ComparableAt(a.v, b.v, FirstDifference(a.v, b.v))
      [] OTHER -> FALSE

\* a < b on two sort keys Python compares; i is the first position at which
\* two lists differ
RECURSIVE KeyLess(_, _)
KeyLessAt(a, b, i) == IF i = 0 THEN Len(a) < Len(b) ELSE KeyLess(a[i], b[i])
KeyLess(a, b) ==
    CASE a.k = "datetime" /\ b.k = "datetime" -> InstantLess(Instant(a.v), Instant(b.v))
      [] a.k \in Numbers /\ b.k \in Numbers -> NumLess(a, b)
      [] a.k = "str" /\ b.k = "str" -> TextLess(a.v, b.v)
      [] a.k = "list" /\ b.k = "list" -> KeyLessAt(a.v, b.v, FirstDifference(a.v, b.v))
      [] OTHER -> FALSE

\* repr(text) of a str without its quotes: the backslash and the quote get a
\* backslash, tab, line feed and carriage return their escapes, and every
\* other control character and DEL its code as \xNN
RECURSIVE Escaped(_, _)
Escaped(t, quote) ==
    IF Len(t) = 0 THEN ""
    ELSE LET c == Char(t, 0)
             hex(n) == SubSeq("0123456789abcdef", n + 1, n + 1)
         IN (CASE c = "\\" -> "\\\\"
               [] c = quote -> "\\" \o c
               [] c = "\n" -> "\\n"
               [] c = "\t" -> "\\t"
               [] c = "\r" -> "\\r"
               [] OTHER -> IF Code[c] < 32 \/ Code[c] = 127
                           THEN "\\x" \o hex(Code[c] \div 16) \o hex(Code[c] % 16)
                           ELSE c) \o Escaped(Drop(t, 1), quote)

\* repr(text) of a str: in single quotes, in double quotes when it holds a
\* single quote and no double one
QuoteText(t) ==
    LET Contains(c) == \E p \in 0..(Len(t) - 1) : Char(t, p) = c
        quote == IF Contains("'") /\ ~Contains("\"") THEN "\"" ELSE "'"
    IN quote \o Escaped(t, quote) \o quote

\* the digits and the decimal point of repr(x) for a finite float x that is
\* not 0: the fewest digits that float() reads as x, and of two such the
\* ones nearer to x. S holds the digits of x from its first one that is not
\* 0 and the decimal point of x stands after the first decpt of them; the
\* numbers that round to x lie between lo and hi, the two included when
\* closed. Digits of the length n are tried, S cut after n digits and that
\* plus one in the last place, the nearer of the two first
RECURSIVE Shortest(_, _, _, _, _, _)
Shortest(S, decpt, n, lo, hi, closed) ==
    LET rounds(c) == /\ MagnitudeLess(lo, c) \/ (closed /\ lo = c)
                     /\ MagnitudeLess(c, hi) \/ (closed /\ c = hi)
        found(d) == [digits |-> Magnitude(<<>>, d).f, decpt |-> decpt + Len(d) - n]
        try(first, second) ==
            IF rounds(Placed(first, decpt + Len(first) - n)) THEN found(first)
            ELSE IF rounds(Placed(second, decpt + Len(second) - n)) THEN found(second)
            ELSE Shortest(S, decpt, n + 1, lo, hi, closed)
    IN IF Len(S) <= n THEN [digits |-> S, decpt |-> decpt]
       ELSE IF S[n + 1] >= 5 THEN try(Succ(SubSeq(S, 1, n)), SubSeq(S, 1, n))
       ELSE try(SubSeq(S, 1, n), Succ(SubSeq(S, 1, n)))

\* the text float_repr_style gives the digits s with the decimal point after
\* the first decpt of them: with an exponent of two digits or more when
\* decpt is above 16 or below -3, else in full with at least one digit after
\* the point
FloatText(s, decpt) ==
    IF decpt > 16 \/ decpt < -3
    THEN DigitText(SubSeq(s, 1, 1))
         \o (IF Len(s) > 1 THEN "." \o DigitText(SubSeq(s, 2, Len(s))) ELSE "")
         \o (IF decpt > 0 THEN "e+" \o Pad(decpt - 1, 2) ELSE "e-" \o Pad(1 - decpt, 2))
    ELSE IF decpt <= 0 THEN "0." \o DigitText([k \in 1..(-decpt) |-> 0] \o s)
    ELSE IF decpt >= Len(s) THEN DigitText(s \o [k \in 1..(decpt - Len(s)) |-> 0]) \o ".0"
    ELSE DigitText(SubSeq(s, 1, decpt)) \o "." \o DigitText(SubSeq(s, decpt + 1, Len(s)))

\* repr(x) of a finite float. For the double m * 2^j the numbers that round
\* to it reach half the way to the doubles next to it, (m - 1) * 2^j and
\* (m + 1) * 2^j, that is from (2 * m - 1) * 2^(j - 1) to
\* (2 * m + 1) * 2^(j - 1); below m = 2^52 the next double is half as far
\* unless the exponent is the least one. The numbers half the way go to the
\* even significand
FloatRepr(x) ==
    LET int(m) == [i |-> m, f |-> <<>>]
        text(r) == FloatText(r.digits, r.decpt)
        shortest(S, m, j) ==
            Shortest(S, Len(S) - Len(x.v.f), 1,
                     IF m = Half(Two53).i /\ j > -1074
                     THEN TimesPow2(int(Pred(Twice(Twice(int(m))).i)), j - 2)
                     ELSE TimesPow2(int(Pred(Twice(int(m)).i)), j - 1),
                     TimesPow2(int(Succ(Twice(int(m)).i)), j - 1),
                     m[Len(m)] % 2 = 0)
        of(S, b) == text(shortest(S, b.x.i, b.j))
    IN (IF x.v.neg THEN "-" ELSE "")
       \o (IF IsZero(x.v) THEN "0.0"
           ELSE of(Magnitude(x.v.i \o x.v.f, <<>>).i, ToBinary(x.v)))

\* repr(x) of a JSON value; the keys of a dict come in the order the dict
\* holds them in
RECURSIVE ReprText(_)
ReprText(x) ==
    LET RECURSIVE Items(_)
        Items(s) ==
            IF Len(s) = 0 THEN ""
            ELSE ReprText(Head(s)) \o (IF Len(s) > 1 THEN ", " ELSE "") \o Items(Tail(s))
        RECURSIVE Entries(_)
        Entries(ks) ==
            IF Len(ks) = 0 THEN ""
            ELSE QuoteText(Head(ks)) \o ": " \o ReprText(x.v[Head(ks)])
                 \o (IF Len(ks) > 1 THEN ", " ELSE "") \o Entries(Tail(ks))
    IN CASE x.k = "int" ->
              IF Len(x.v.i) = 0 THEN "0" ELSE (IF x.v.neg THEN "-" ELSE "") \o DigitText(x.v.i)
         [] x.k = "float" -> FloatRepr(x)
         [] x.k = "inf" -> IF x.v < 0 THEN "-inf" ELSE "inf"
         [] x.k = "nan" -> "nan"
         [] x.k = "bool" -> IF x.v THEN "True" ELSE "False"
         [] x.k = "null" -> "None"
         [] x.k = "str" -> QuoteText(x.v)
         [] x.k = "list" -> "[" \o Items(x.v) \o "]"
         [] x.k = "dict" -> "{" \o Entries(x.keys) \o "}"

\* the UTC offset as isoformat writes it: +HH:MM, with :SS when the offset
\* has seconds or microseconds and .ffffff when it has microseconds
OffsetText(tz) ==
    LET secs == IF tz[1] < 0 THEN -tz[1] ELSE tz[1]
        us == IF tz[2] < 0 THEN -tz[2] ELSE tz[2]
    IN (IF tz[1] < 0 \/ tz[2] < 0 THEN "-" ELSE "+")
       \o Pad(secs \div 3600, 2) \o ":" \o Pad((secs % 3600) \div 60, 2)
       \o (IF secs % 60 # 0 \/ us # 0 THEN ":" \o Pad(secs % 60, 2) ELSE "")
       \o (IF us # 0 THEN "." \o Pad(us, 6) ELSE "")

\* str(dt) of a datetime: isoformat with a blank between date and time
DateTimeText(dt) ==
    Pad(dt.date[1], 4) \o "-" \o Pad(dt.date[2], 2) \o "-" \o Pad(dt.date[3], 2)
    \o " " \o Pad(dt.time[1], 2) \o ":" \o Pad(dt.time[2], 2) \o ":" \o Pad(dt.time[3], 2)
    \o (IF dt.time[4] # 0 THEN "." \o Pad(dt.time[4], 6) ELSE "")
    \o (IF Len(dt.tz) = 2 THEN OffsetText(dt.tz) ELSE "")

\* str(x)
ToStr(x) ==
    CASE x.k = "str" -> x
      [] x.k = "datetime" -> PyStr(DateTimeText(x.v))
      [] OTHER -> PyStr(ReprText(x))

\* the Row of the parsed start time, the parsed end time, float(value) and
\* str of the dataset id; "continue" when a fromisoformat call raised its
\* ValueError or float(value) raised TypeError or ValueError, which the
\* except clause takes; any other exception of float(value) leaves the loop
AppendRow(dt_start, dt_end, fvalue, did) ==
    IF dt_start.k = "raise" \/ dt_end.k = "raise" THEN [k |-> "continue", v |-> 0]
    ELSE IF fvalue.k = "raise"
    THEN (IF fvalue.v \in {"TypeError", "ValueError"} THEN [k |-> "continue", v |-> 0]
          ELSE fvalue)
    ELSE [k |-> "row",
          v |-> [start_time |-> dt_start, end_time |-> dt_end,
                 value |-> fvalue, dataset_id |-> did]]

\* the Row of a record whose start time is parsed: the end time is parsed
\* when it is a non-empty string and is the start time otherwise
RowFrom(dt_start, et, value, did) ==
    AppendRow(dt_start,
              IF Truthy(et) /\ et.k = "str" THEN ParseIso(et.v) ELSE dt_start,
              ToFloat(value), ToStr(did))

\* the body of the for loop of fetch_and_process for one item: the Row it
\* appends, "continue" when the record is skipped, or the exception that
\* leaves the loop
ProcessItem(item, dataset_id) ==
    IF item.k # "dict" THEN AttributeError
    ELSE IF DictGet(item.v, "startTime").k = "null" \/ DictGet(item.v, "value").k = "null"
    THEN [k |-> "continue", v |-> 0]
    ELSE RowFrom(IF DictGet(item.v, "startTime").k = "str"
                 THEN ParseIso(DictGet(item.v, "startTime").v)
                 ELSE DictGet(item.v, "startTime"),
                 DictGet(item.v, "endTime"), DictGet(item.v, "value"),
                 DictGetDefault(item.v, "datasetId", dataset_id))

\* the rows after one more item of the loop: before is the list so far or
\* the exception that left the loop, r what the body gives for the item
AfterItem(before, r) ==
    CASE before.k = "raise" -> before
      [] r.k = "raise" -> r
      [] r.k = "row" -> PyList(before.v \o <<r.v>>)
      [] OTHER -> before

\* the for loop over raw: the list of rows, or the exception that leaves it
RECURSIVE BuildRows(_, _)
BuildRows(raw, dataset_id) ==
    IF raw = <<>> THEN PyList(<<>>)
    ELSE AfterItem(BuildRows(SubSeq(raw, 1, Len(raw) - 1), dataset_id),
                   ProcessItem(raw[Len(raw)], dataset_id))

\* r1["start_time"] < r2["start_time"] for two rows with comparable keys
RowLess(r1, r2) == KeyLess(r1.start_time, r2.start_time)

\* the length of the run of s that is descending or not as desc says
RunOf(s, desc) ==
    CHOOSE m \in 2..Len(s) :
      /\ \A i \in 2..m : RowLess(s[i], s[i - 1]) = desc
      /\ m = Len(s) \/ RowLess(s[m + 1], s[m]) # desc

\* count_run: the length of the run at the front of s, which is a
\* strictly descending one when its second element is less than its first
RunLength(s) == IF Len(s) < 2 THEN Len(s) ELSE RunOf(s, RowLess(s[2], s[1]))

RECURSIVE Reverse(_)
Reverse(s) == IF s = <<>> THEN <<>> ELSE Reverse(Tail(s)) \o <<Head(s)>>

\* the search loop of binarysort: the number of elements of s (sorted) that
\* stay in front of pivot; l and r count elements from 0 as the C code does
RECURSIVE BinarySearch(_, _, _, _)
BinarySearch(s, pivot, l, r) ==
    IF l >= r THEN l
    ELSE LET p == l + ((r - l) \div 2)
         IN IF RowLess(pivot, s[p + 1])
            THEN BinarySearch(s, pivot, l, p)
            ELSE BinarySearch(s, pivot, p + 1, r)

\* s with its element start + 1 moved behind its first l elements
Moved(s, start, l) ==
    SubSeq(s, 1, l) \o <<s[start + 1]>> \o SubSeq(s, l + 1, start)
      \o SubSeq(s, start + 2, Len(s))

\* binarysort: s[1..start] is sorted, the elements after it are inserted one
\* by one
RECURSIVE BinarySort(_, _)
BinarySort(s, start) ==
    IF start >= Len(s) THEN s
    ELSE BinarySort(Moved(s, start, BinarySearch(s, s[start + 1], 0, start)), start + 1)

\* ListSort leaving the list as it is
ListSortNone(rows) == rows

\* rows with its run of length n at the front made ascending
RunAscending(rows, n) ==
    (IF RowLess(rows[2], rows[1]) THEN Reverse(SubSeq(rows, 1, n)) ELSE SubSeq(rows, 1, n))
      \o SubSeq(rows, n + 1, Len(rows))

\* the sort of two or more rows whose first run has the length n
SortRun(rows, n) == BinarySort(RunAscending(rows, n), n)

\* list.sort on a list shorter than its minimum run length (64): one run is
\* counted, reversed when descending, and extended by binary insertion
ListSort(rows) == IF Len(rows) < 2 THEN rows ELSE SortRun(rows, RunLength(rows))

\* whether count_run meets a comparison Python does not define: it
\* compares each element with the one before it, up to the element that
\* ends the run of length n
CountRunRaises(s, n) ==
    \E i \in 2..(IF n < Len(s) THEN n + 1 ELSE n) :
        ~Comparable(s[i].start_time, s[i - 1].start_time)

\* whether the search loop of binarysort meets such a comparison
RECURSIVE BinarySearchRaises(_, _, _, _)
BinarySearchRaises(s, pivot, l, r) ==
    IF l >= r THEN FALSE
    ELSE \/ ~Comparable(pivot.start_time, s[l + ((r - l) \div 2) + 1].start_time)
         \/ IF RowLess(pivot, s[l + ((r - l) \div 2) + 1])
            THEN BinarySearchRaises(s, pivot, l, l + ((r - l) \div 2))
            ELSE BinarySearchRaises(s, pivot, l + ((r - l) \div 2) + 1, r)

\* whether binarysort meets such a comparison
RECURSIVE BinarySortRaises(_, _)
BinarySortRaises(s, start) ==
    IF start >= Len(s) THEN FALSE
    ELSE \/ BinarySearchRaises(s, s[start + 1], 0, start)
         \/ BinarySortRaises(Moved(s, start, BinarySearch(s, s[start + 1], 0, start)),
                             start + 1)

\* whether the sort of two or more rows whose first run has the length n
\* meets a comparison Python does not define
SortRunRaises(rows, n) ==
    CountRunRaises(rows, n) \/ BinarySortRaises(RunAscending(rows, n), n)

\* whether list.sort meets a comparison Python does not define; a list of
\* fewer than two rows is not compared at all
ListSortRaises(rows) ==
    IF Len(rows) < 2 THEN FALSE ELSE SortRunRaises(rows, RunLength(rows))

\* rows.sort(key=lambda r: r["start_time"]): list.sort raises the TypeError
\* of the first comparison it makes that Python does not define
SortRows(rows) ==
    IF ListSortRaises(rows) THEN TypeError ELSE PyList(ListSort(rows))

\* rows.sort after the loop, which an exception of the loop does not reach
SortBuilt(built) == IF built.k = "raise" THEN built ELSE SortRows(built.v)

\* fetch_and_process after fetch_timeseries has returned raw
Normalize(raw, dataset_id) == SortBuilt(BuildRows(raw, dataset_id))

(* ------------------------- configuration ------------------------------- *)

DEFAULT_PAGE_SIZE == 10000

\* get_api_key(): os.environ.get gives None for a variable that is not set
get_api_key(env) ==
    PyOr(PyOr(env["FINGRID_API_KEY"], env["FINGRID_OPENDATA_API_KEY"]), env["API_KEY"])

\* the values an environment variable takes: not set, empty, a key
Envs ==
    [{"FINGRID_API_KEY", "FINGRID_OPENDATA_API_KEY", "API_KEY"}
       -> {None, PyStr(""), PyStr("key")}]

(* --------------------------- dataset catalog --------------------------- *)

DATASET_CATALOG ==
    [consumption |-> "193", production |-> "192", wind |-> "181", hydro |-> "191",
     nuclear |-> "188", solar_forecast |-> "248", chp |-> "201",
     industrial_chp |-> "202", other_production |-> "205",
     transmission_estonia |-> "180", transmission_sweden_se1 |-> "87",
     transmission_sweden_se3 |-> "89", transmission_norway |-> "187",
     peak_load |-> "183", power_system_state |-> "209", wind_forecast |-> "245",
     district_heating |-> "371"]

\* the --variable inputs: the text, what text.strip().lower().replace(" ", "_")
\* makes of it, and whether text.isdigit()
VariableInputs ==
    { [text |-> "Wind Forecast", key |-> "wind_forecast", isdigit |-> FALSE],
      [text |-> "181", key |-> "181", isdigit |-> TRUE],
      [text |-> "42", key |-> "42", isdigit |-> TRUE],
      [text |-> "42 ", key |-> "42", isdigit |-> FALSE],
      [text |-> "bogus", key |-> "bogus", isdigit |-> FALSE] }

NoDataset == "<None>"

\* get_dataset_id(name_or_id); NoDataset stands for None
get_dataset_id(name_or_id) ==
    IF name_or_id.key \in DOMAIN DATASET_CATALOG THEN DATASET_CATALOG[name_or_id.key]
    ELSE IF name_or_id.isdigit THEN name_or_id.text
    ELSE NoDataset

\* name.replace("_", " ").title() for the catalog names the model resolves
TitleOf == ("wind" :> "Wind") @@ ("wind_forecast" :> "Wind Forecast")

\* the label loop of fetch_and_process: the title of the first catalog name
\* with this dataset id, else the variable as given
LabelFor(variable, dataset_id) ==
    IF \E name \in DOMAIN DATASET_CATALOG : DATASET_CATALOG[name] = dataset_id
    THEN TitleOf[CHOOSE name \in DOMAIN DATASET_CATALOG : DATASET_CATALOG[name] = dataset_id]
    ELSE variable.text

(* ------------------------------ Fetch Loop ----------------------------- *)

\* _build_url: the query the URL carries
BuildUrl(dataset_ids, start_time, end_time, page) ==
    [datasets |-> dataset_ids, startTime |-> start_time, endTime |-> end_time,
     pageSize |-> DEFAULT_PAGE_SIZE, page |-> page]

\* the four exception classes of the error taxonomy
FingridErrors == {"MissingAPIKeyError", "NetworkError", "RateLimitError", "APIResponseError"}

\* raise APIResponseError(message, status_code)
RaiseStatus(exc, code) == [k |-> "raise", v |-> exc, status_code |-> code]

\* KeyMissing as `if api_key is None`
KeyMissingIsNone(api_key) == api_key.k = "null"

\* `if not api_key` of fetch_timeseries
KeyMissing(api_key) == ~Truthy(api_key)

\* how a call stands: running, returned, or left by an exception
Running == [status |-> "running", exc |-> "", status_code |-> 0]
Returned == [status |-> "returned", exc |-> "", status_code |-> 0]
Raised(r) == [status |-> "raised", exc |-> r.v, status_code |-> r.status_code]

\* Abort swallowing the exception and returning what was accumulated
AbortPartial(r, acc) == [pc |-> "fetched", result |-> Running, raw |-> acc]

\* a raise statement of fetch_timeseries, reached with acc accumulated: the
\* call ends, the caller gets the exception and no list
Abort(r, acc) == [pc |-> "done", result |-> Raised(r), raw |-> <<>>]

\* what urlopen and the with block do with one outcome of the transport: the
\* decoded body, or the exception that leaves the try statement
Transport(out) ==
    CASE out.t = "response" ->
           IF out.code = 429 THEN Raise("RateLimitError")
           ELSE IF out.code # 200 THEN RaiseStatus("APIResponseError", out.code)
           ELSE IF out.body.k = "bad_utf8" THEN Raise("UnicodeDecodeError")
           ELSE out.body
      [] out.t = "HTTPError" ->
           IF out.code = 429 THEN Raise("RateLimitError")
           ELSE IF out.body.k = "bad_utf8" THEN Raise("UnicodeDecodeError")
           ELSE RaiseStatus("APIResponseError", out.code)
      [] out.t \in {"URLError", "TimeoutError", "OSError"} -> Raise("NetworkError")
      [] OTHER -> Raise(out.t)

\* json.loads and the structure checks: the response dictionary, or the
\* exception raised
ParseResponse(body) ==
    IF body.k # "json" THEN Raise("APIResponseError")
    ELSE IF body.v.k # "dict" THEN Raise("APIResponseError")
    ELSE LET data == DictGet(body.v.v, "data")
         IN IF data.k = "null" THEN Raise("APIResponseError")
            ELSE IF data.k # "list" THEN Raise("APIResponseError")
            ELSE body.v

\* LastPageOf with 2 as the default of pagination.get
LastPageOfDefault2(response) ==
    LET pagination == PyOr(DictGet(response.v, "pagination"),
                           PyDict(<<>>, <<>>))
    IN IF pagination.k # "dict" THEN AttributeError
       ELSE DictGetDefault(pagination.v, "lastPage", PyInt(2))

\* pagination = response.get("pagination") or {}; pagination.get("lastPage", 1)
LastPageOf(response) ==
    LET pagination == PyOr(DictGet(response.v, "pagination"),
                           PyDict(<<>>, <<>>))
    IN IF pagination.k # "dict" THEN AttributeError
       ELSE DictGetDefault(pagination.v, "lastPage", PyInt(1))

\* PageDone with page > last_page in place of page >= last_page
PageDoneStrict(page, last_page) ==
    IF last_page.k \in Numbers
    THEN PyBool(NumLess(last_page, PyInt(page)))
    ELSE TypeError

\* page >= last_page: TRUE / FALSE as a bool, or the TypeError of the comparison
PageDone(page, last_page) ==
    IF last_page.k \in Numbers
    THEN PyBool(last_page.k # "nan" /\ ~NumLess(PyInt(page), last_page))
    ELSE TypeError

(* --------------------------- simulated server -------------------------- *)

\* the lists over S of length at most n
RECURSIVE SeqsUpTo(_, _)
SeqsUpTo(S, n) ==
    IF n = 0 THEN {<<>>}
    ELSE LET shorter == SeqsUpTo(S, n - 1)
         IN shorter \cup {Append(q, x) : q \in {t \in shorter : Len(t) = n - 1}, x \in S}

\* the orders the list s can be given in
RECURSIVE Orderings(_)
Orderings(s) ==
    IF Len(s) < 2 THEN {s}
    ELSE UNION {{<<s[i]>> \o q :
                   q \in Orderings(SubSeq(s, 1, i - 1) \o SubSeq(s, i + 1, Len(s)))} :
                i \in 1..Len(s)}

\* a response document, its keys in the order of the API's documents
Document(data, pagination) ==
    PyDict(<<"data", "pagination">>, [data |-> data, pagination |-> pagination])

\* the pagination metadata of the simulated pages
Paginations ==
    LET Pagination(last, current) ==
            PyDict(<<"currentPage", "lastPage">>,
                   [lastPage |-> last, currentPage |-> current])
    IN {Absent, None, PyInt(0), PyList(<<PyInt(1)>>),
        Pagination(Absent, Absent), Pagination(Absent, PyInt(1)), Pagination(None, PyInt(1)),
        Pagination(PyStr("3"), PyInt(1)), Pagination(NaN, PyInt(1))}
       \cup {Pagination(PyInt(n), PyInt(1)) : n \in (-1)..MaxLastPage}

\* the JSON documents the simulated server sends
JsonBodies ==
    {PyList(<<>>), PyStr("abc")}
    \cup {Document(d, Absent) : d \in {Absent, None, PyStr("abc")}}
    \cup {Document(PyList(pd), p) : pd \in {<<>>} \cup {<<r>> : r \in FetchRecords},
              p \in Paginations}

Body(kind, value) == [k |-> kind, v |-> value]
Outcome(t, code, body) == [t |-> t, code |-> code, body |-> body]

\* what one call of urlopen can do: raise a transport exception, raise
\* HTTPError (with or without a readable body), or hand back a response
Outcomes ==
    {Outcome(t, 0, Body("none", 0)) : t \in {"URLError", "TimeoutError", "OSError", "HTTPException"}}
    \cup {Outcome("HTTPError", c, Body(b, 0)) : c \in {404, 429}, b \in {"none", "text", "bad_utf8"}}
    \cup {Outcome("response", c, Body("text", 0)) : c \in {204, 429}}
    \cup {Outcome("response", 200, Body(b, 0)) : b \in {"text", "bad_utf8"}}
    \cup {Outcome("response", 200, Body("json", j)) : j \in JsonBodies}

(* ------------------------------- state --------------------------------- *)

VARIABLES
    pc,             \* position in fetch_and_process / fetch_timeseries
    variable,       \* the variable argument of fetch_and_process
    dataset_id,     \* resolve_variable(variable)
    variable_label, \* the label fetch_and_process returns
    api_key,        \* get_api_key(), Absent before fetch_timeseries reads it
    page,           \* page of fetch_timeseries
    last_page,      \* last_page of fetch_timeseries
    all_data,       \* all_data of fetch_timeseries
    requests,       \* the URLs handed to urlopen, in order
    events,         \* requests, responses and sleeps, in order
    log,            \* the outcomes urlopen produced, in order
    raw,            \* what fetch_timeseries returned
    rows,           \* what fetch_and_process returned
    result,         \* running, returned, or the exception that left the call
    max_rows,       \* --max-rows as main hands it to format_table
    lines           \* the lines of the table format_table returned

vars == <<pc, variable, dataset_id, variable_label, api_key, page, last_page,
          all_data, requests, events, log, raw, rows, result, max_rows, lines>>

START_TIME == "2024-01-01T00:00"
END_TIME == "2024-01-02T00:00"


Event(e, p) == [e |-> e, page |-> p]

Init ==
    /\ pc = "start"
    /\ variable \in VariableInputs
    /\ dataset_id = NoDataset
    /\ variable_label = ""
    /\ api_key = Absent
    /\ page = 0
    /\ last_page = None
    /\ all_data = <<>>
    /\ requests = <<>>
    /\ events = <<>>
    /\ log = <<>>
    /\ raw = <<>>
    /\ rows = <<>>
    /\ result = Running
    /\ max_rows = 50
    /\ lines = <<>>

\* resolve_variable and the label loop of fetch_and_process
ResolveVariable ==
    /\ UNCHANGED <<max_rows, lines>>
    /\ pc = "start"
    /\ LET did == get_dataset_id(variable)
       IN IF did = NoDataset
          THEN /\ result' = Raised(ValueError)
               /\ pc' = "done"
               /\ UNCHANGED <<dataset_id, variable_label>>
          ELSE /\ dataset_id' = did
               /\ variable_label' = LabelFor(variable, did)
               /\ pc' = "resolved"
               /\ UNCHANGED result
    /\ UNCHANGED <<variable, api_key, page, last_page, all_data, requests, events,
                   log, raw, rows>>

\* fetch_timeseries up to the while loop
EnterFetch ==
    /\ UNCHANGED <<max_rows, lines>>
    /\ pc = "resolved"
    /\ \E env \in Envs :
         /\ api_key' = get_api_key(env)
         /\ IF KeyMissing(api_key')
            THEN /\ result' = Raised(Raise("MissingAPIKeyError"))
                 /\ pc' = "done"
                 /\ UNCHANGED <<page, last_page, all_data>>
            ELSE /\ all_data' = <<>>
                 /\ page' = 1
                 /\ last_page' = None
                 /\ pc' = "request"
                 /\ UNCHANGED result
    /\ UNCHANGED <<variable, dataset_id, variable_label, requests, events, log, raw, rows>>

\* the head of the while loop: build the URL and call urlopen
SendRequest ==
    /\ UNCHANGED <<max_rows, lines>>
    /\ pc = "request"
    /\ page <= MaxPage
    /\ requests' = Append(requests, BuildUrl(<<dataset_id>>, START_TIME, END_TIME, page))
    /\ events' = Append(events, Event("request", page))
    /\ pc' = "inflight"
    /\ UNCHANGED <<variable, dataset_id, variable_label, api_key, page, last_page,
                   all_data, log, raw, rows, result>>

\* the rest of the loop body for one outcome of urlopen
ReceiveResponse ==
    /\ UNCHANGED <<max_rows, lines>>
    /\ pc = "inflight"
    /\ \E out \in Outcomes :
         LET body == Transport(out)
             response == ParseResponse(body)
             data == DictGet(response.v, "data").v
             lp == LastPageOf(response)
             done == PageDone(page, lp)
             fail(r) == /\ result' = Abort(r, all_data).result
                        /\ pc' = Abort(r, all_data).pc
                        /\ raw' = Abort(r, all_data).raw
                        /\ UNCHANGED page
         IN /\ log' = Append(log, out)
            /\ events' = Append(events, Event("response", page))
            /\ IF body.k = "raise"
               THEN fail(body) /\ UNCHANGED <<all_data, last_page>>
               ELSE IF response.k = "raise"
               THEN fail(response) /\ UNCHANGED <<all_data, last_page>>
               ELSE /\ all_data' = all_data \o data
                    /\ IF lp.k = "raise"
                       THEN fail(lp) /\ UNCHANGED last_page
                       ELSE /\ last_page' = lp
                            /\ IF done.k = "raise"
                               THEN fail(done)
                               ELSE IF done.v
                               THEN /\ raw' = all_data'
                                    /\ pc' = "fetched"
                                    /\ UNCHANGED <<page, result>>
                               ELSE /\ page' = page + 1
                                    /\ pc' = "sleep"
                                    /\ UNCHANGED <<raw, result>>
    /\ UNCHANGED <<variable, dataset_id, variable_label, api_key, requests, rows>>

\* Sleep without the call of time.sleep: the loop goes straight on
SleepOmitted ==
    /\ UNCHANGED <<max_rows, lines>>
    /\ pc = "sleep"
    /\ pc' = "request"
    /\ UNCHANGED <<variable, dataset_id, variable_label, api_key, page, last_page,
                   all_data, requests, events, log, raw, rows, result>>

\* time.sleep(REQUEST_DELAY_SECONDS)
Sleep ==
    /\ UNCHANGED <<max_rows, lines>>
    /\ pc = "sleep"
    /\ events' = Append(events, Event("sleep", page))
    /\ pc' = "request"
    /\ UNCHANGED <<variable, dataset_id, variable_label, api_key, page, last_page,
                   all_data, requests, log, raw, rows, result>>

\* fetch_and_process from the return of fetch_timeseries to its own return
NormalizeRows ==
    /\ UNCHANGED <<max_rows, lines>>
    /\ pc = "fetched"
    /\ \E n \in {Normalize(raw, PyStr(dataset_id))} :
          IF n.k = "raise"
          THEN result' = Raised(n) /\ UNCHANGED rows
          ELSE result' = Returned /\ rows' = n.v
    /\ pc' = "done"
    /\ UNCHANGED <<variable, dataset_id, variable_label, api_key, page, last_page,
                   all_data, requests, events, log, raw>>

Next ==
    \/ ResolveVariable
    \/ EnterFetch
    \/ SendRequest
    \/ ReceiveResponse
    \/ Sleep
    \/ NormalizeRows

Spec == Init /\ [][Next]_vars

(* ------------- the normalizer on an arbitrary fetched list ------------- *)

\* a page that carries data and no pagination metadata
SinglePage(data) ==
    Outcome("response", 200, Body("json", Document(PyList(data), Absent)))

\* fetch_timeseries has just returned a list the server sent as one page
InitNorm ==
    /\ pc = "fetched"
    /\ variable \in {v \in VariableInputs : get_dataset_id(v) # NoDataset}
    /\ dataset_id = get_dataset_id(variable)
    /\ variable_label = LabelFor(variable, dataset_id)
    /\ api_key = PyStr("key")
    /\ page = 1
    /\ last_page = PyInt(1)
    /\ raw \in SeqsUpTo(RawRecords, MaxRaw) \cup Orderings(ReorderedRun)
    /\ all_data = raw
    /\ requests = <<BuildUrl(<<dataset_id>>, START_TIME, END_TIME, 1)>>
    /\ events = <<Event("request", 1), Event("response", 1)>>
    /\ log = <<SinglePage(raw)>>
    /\ rows = <<>>
    /\ result = Running
    /\ max_rows = 50
    /\ lines = <<>>

NextNorm == NormalizeRows

SpecNorm == InitNorm /\ [][NextNorm]_vars

(* ============================== properties ============================= *)

\* the page numbers of the requests issued so far
RequestPages == [i \in 1..Len(requests) |-> requests[i].page]

\* out is a 200 response whose body is a JSON object with a list `data`
IsPage(out) ==
    /\ out.t = "response"
    /\ out.code = 200
    /\ out.body.k = "json"
    /\ out.body.v.k = "dict"
    /\ out.body.v.v.data.k = "list"

\* out is a page whose pagination object reports lastPage = n
ReportsLastPage(out, n) ==
    /\ IsPage(out)
    /\ out.body.v.v.pagination.k = "dict"
    /\ out.body.v.v.pagination.v.lastPage = PyInt(n)

\* the data arrays of a list of pages, one after the other
RECURSIVE ConcatData(_)
ConcatData(pages) ==
    IF pages = <<>> THEN <<>>
    ELSE pages[1].body.v.v.data.v \o ConcatData(Tail(pages))

\* the fetch_timeseries call is over
FetchOver == pc \in {"fetched", "done"}

\* C1: when every response is a successful page reporting lastPage = N, the
\* requests carry the page numbers 1, 2, ... in order, there are never more
\* than N of them, the call ends exactly at the N-th response, and it returns
\* the concatenation of the N data arrays in page order.
C1_AllPagesInOrder ==
    \A N \in 1..MaxLastPage :
      (log # <<>> /\ \A i \in 1..Len(log) : ReportsLastPage(log[i], N)) =>
        /\ RequestPages = [i \in 1..Len(requests) |-> i]
        /\ Len(requests) <= N
        /\ FetchOver <=> Len(log) = N
        /\ FetchOver => (Len(requests) = N /\ raw = ConcatData(log))

C1_Witness ==
    /\ pc = "done"
    /\ result = Returned
    /\ Len(log) = 3
    /\ \A i \in 1..3 : ReportsLastPage(log[i], 3)
    /\ Len(raw) = 3
    /\ RequestPages = <<1, 2, 3>>

\* the exception fetch_timeseries classifies an outcome as, if any
Classified(out) ==
    LET body == Transport(out)
    IN IF body.k = "raise" THEN body ELSE ParseResponse(body)

\* C2: when the latest request ended in a classified failure, the call is
\* over with that error, the failed request is the last thing that happened
\* (no request or delay follows it), and nothing accumulated from the earlier
\* pages reaches the caller.
C2_FailureAborts ==
    (log # <<>> /\ Classified(log[Len(log)]).k = "raise"
               /\ Classified(log[Len(log)]).v \in FingridErrors) =>
        /\ pc = "done"
        /\ result = Raised(Classified(log[Len(log)]))
        /\ Len(requests) = Len(log)
        /\ events[Len(events)] = Event("response", Len(log))
        /\ raw = <<>>
        /\ rows = <<>>

C2_Witness ==
    /\ Len(log) = 2
    /\ IsPage(log[1]) /\ Len(ConcatData(<<log[1]>>)) > 0
    /\ log[2].code = 429
    /\ result.status = "raised" /\ result.exc = "RateLimitError"
    /\ all_data # <<>>
    /\ raw = <<>>

\* C3: once fetch_timeseries has read the credential and found none (None or
\* the empty string), the call is over with MissingAPIKeyError and no request
\* was issued; and no request is ever issued before a credential was read.
C3_NoKeyNoRequest ==
    /\ (api_key.k = "null" \/ (api_key.k = "str" /\ api_key.v = "")) =>
          /\ pc = "done"
          /\ result.status = "raised" /\ result.exc = "MissingAPIKeyError"
          /\ requests = <<>>
          /\ events = <<>>
    /\ (requests # <<>> \/ events # <<>>) =>
          (api_key.k = "str" /\ api_key.v # "")

C3_Witness ==
    /\ api_key.k = "str" /\ api_key.v = ""
    /\ result.exc = "MissingAPIKeyError"
    /\ requests = <<>>

\* out is a page without lastPage metadata: pagination absent, null, or an
\* object that has no lastPage
NoPaginationMetadata(out) ==
    /\ IsPage(out)
    /\ \/ out.body.v.v.pagination.k \in {"absent", "null"}
       \/ /\ out.body.v.v.pagination.k = "dict"
          /\ out.body.v.v.pagination.v.lastPage.k = "absent"

\* C6: when the first response is a page without pagination metadata, the
\* call ends at that response: one request was issued, lastPage was taken to
\* be 1, and the list returned is that page's data.
C6_NoPaginationSinglePage ==
    (log # <<>> /\ NoPaginationMetadata(log[1])) =>
        /\ FetchOver
        /\ Len(log) = 1
        /\ RequestPages = <<1>>
        /\ last_page = PyInt(1)
        /\ raw = ConcatData(<<log[1]>>)
        /\ result.exc \notin FingridErrors

C6_Witness ==
    /\ pc = "done"
    /\ result = Returned
    /\ Len(log) = 1
    /\ log[1].body.v.v.pagination.k = "dict"
    /\ log[1].body.v.v.pagination.v.lastPage.k = "absent"
    /\ log[1].body.v.v.pagination.v.currentPage.k = "int"
    /\ Len(raw) = 1
    /\ Len(rows) = 1

\* the error kind the classification rules give an outcome of urlopen, ""
\* for a success
ExpectedKind(out) ==
    CASE out.t \notin {"response", "HTTPError"} -> "NetworkError"
      [] out.t \in {"response", "HTTPError"} /\ out.code = 429 -> "RateLimitError"
      [] out.t \in {"response", "HTTPError"} /\ out.code \notin {200, 429} -> "APIResponseError"
      [] out.t = "response" /\ out.code = 200 /\ ~IsPage(out) -> "APIResponseError"
      [] OTHER -> ""

\* C4: the latest outcome of urlopen is classified by the rules: transport
\* failure -> NetworkError, status 429 -> RateLimitError, any other status
\* than 200 -> APIResponseError carrying the status, a 200 body that is not
\* JSON, not an object or without a list `data` -> APIResponseError, and
\* only a 200 JSON object with a list `data` raises none of these.
C4_Classification ==
    log # <<>> =>
      LET out == log[Len(log)]
          kind == ExpectedKind(out)
      IN IF kind = ""
         THEN result.exc \notin FingridErrors
         ELSE /\ result.status = "raised"
              /\ result.exc = kind
              /\ (out.code \notin {0, 200, 429}) => result.status_code = out.code

\* C5: every exception that leaves fetch_and_process is one of the four
\* kinds of the taxonomy.
C5_ClosedTaxonomy ==
    result.status = "raised" => result.exc \in FingridErrors

\* a record the normalizer is to drop: not a dictionary, no start time or no
\* value, a value that is no number, or a start time that is no parseable
\* string
Malformed(item) ==
    \/ item.k # "dict"
    \/ DictGet(item.v, "startTime").k = "null"
    \/ DictGet(item.v, "value").k = "null"
    \/ ToFloat(DictGet(item.v, "value")).k = "raise"
    \/ DictGet(item.v, "startTime").k # "str"
    \/ ParseIso(DictGet(item.v, "startTime").v).k = "raise"

\* C7: normalization returns for every fetched list; the malformed records
\* are absent from its output and every other record has its Row there.
C7_NormalizerTotal ==
    pc = "done" =>
      /\ result = Returned
      /\ Len(rows) = Cardinality({i \in 1..Len(raw) : ~Malformed(raw[i])})
      /\ \A i \in 1..Len(raw) : ~Malformed(raw[i]) =>
           \E j \in 1..Len(rows) :
              /\ rows[j].start_time = ParseIso(raw[i].v.startTime.v)
              /\ rows[j].value = ToFloat(raw[i].v.value)

\* the rows in the order the loop appended them, before the sort
Appended == BuildRows(raw, PyStr(dataset_id)).v

\* the one-to-one maps of 1..n onto itself
Bijections(n) == {f \in [1..n -> 1..n] : \A i, j \in 1..n : f[i] = f[j] => i = j}

\* neither start time is less than the other
Tied(r1, r2) == ~RowLess(r1, r2) /\ ~RowLess(r2, r1)

\* C8: the rows returned are in ascending start_time order (no row's start
\* time is less than that of a row before it), and rows with equal start
\* times are in the relative order their records had in the input.
C8_AscendingStable ==
    (pc = "done" /\ result = Returned) =>
      /\ \A i, j \in 1..Len(rows) : i < j => ~RowLess(rows[j], rows[i])
      /\ \E f \in Bijections(Len(rows)) :
           /\ \A i \in 1..Len(rows) : rows[i] = Appended[f[i]]
           /\ \A i, j \in 1..Len(rows) :
                (i < j /\ Tied(rows[i], rows[j])) => f[i] < f[j]

\* C9 as stated: every order of the fetched records gives the same sequence
\* of Rows.
C9_OrderIndependent ==
    (pc = "done" /\ result = Returned) =>
      \A q \in Orderings(raw) :
         LET other == Normalize(q, PyStr(dataset_id))
         IN other.k = "list" /\ other.v = rows

\* the number of times x occurs in s
Count(x, s) == Cardinality({i \in 1..Len(s) : s[i] = x})

\* s and t hold the same elements the same number of times
SameBag(s, t) ==
    /\ Len(s) = Len(t)
    /\ \A i \in 1..Len(s) : Count(s[i], s) = Count(s[i], t)

\* every two of the start times of the rows s can be compared, and one of
\* them is less than the other unless the two are equal
TotallyOrdered(s) ==
    \A i, j \in 1..Len(s) : i # j =>
       /\ Comparable(s[i].start_time, s[j].start_time)
       /\ \/ RowLess(s[i], s[j])
          \/ RowLess(s[j], s[i])
          \/ PyEq(s[i].start_time, s[j].start_time)

\* the rows of s whose start time ties with that of r, in their order in s
Group(s, r) == SelectSeq(s, LAMBDA x : Tied(x, r))

\* the exception exc left the record loop: the TypeError of a record is
\* caught there, so a TypeError is the one list.sort raised
LoopRaised(exc) == exc \notin {"", "TypeError"}

\* C9 amended: for every two orders of the fetched records, the record loop
\* raises (AttributeError, OverflowError) in one exactly if it does in the
\* other, and two orders that both return give the same Rows, each as many
\* times. When the loop does not raise and the start times of its Rows are
\* totally ordered, every order returns, the sequences of two orders have
\* start times that tie position by position (they differ at most in the
\* order of the Rows inside a group of equal start times), and the Rows of
\* such a group stand in the order their records have in the input.
C9_SameRowsUpToTies ==
    pc = "done" =>
      \A q \in Orderings(raw) :
         LET built == BuildRows(q, PyStr(dataset_id))
             other == SortBuilt(built)
         IN /\ LoopRaised(result.exc) <=> (other.k = "raise" /\ LoopRaised(other.v))
            /\ (result = Returned /\ other.k = "list") => SameBag(rows, other.v)
            /\ (built.k = "list" /\ TotallyOrdered(built.v)) =>
                 /\ result = Returned
                 /\ other.k = "list"
                 /\ \A i \in 1..Len(rows) :
                      /\ Tied(rows[i], other.v[i])
                      /\ Group(other.v, rows[i]) = Group(built.v, rows[i])

\* three Rows with totally ordered start times, two of them different Rows
\* with equal start times, which the sort has moved
C9_Witness ==
    /\ pc = "done"
    /\ result = Returned
    /\ Len(rows) = 3
    /\ TotallyOrdered(rows)
    /\ \E i, j \in 1..3 : Tied(rows[i], rows[j]) /\ rows[i] # rows[j]
    /\ Appended # rows
    /\ \E q \in Orderings(raw) : Normalize(q, PyStr(dataset_id)).v # rows

\* C10: every Row returned has a timestamp start_time, a timestamp end_time,
\* a float value and a string dataset_id.
C10_RowTypes ==
    (pc = "done" /\ result = Returned) =>
      \A i \in 1..Len(rows) :
         /\ rows[i].start_time.k = "datetime"
         /\ rows[i].end_time.k = "datetime"
         /\ rows[i].value.k \in {"float", "inf", "nan"}
         /\ rows[i].dataset_id.k = "str"

\* the record has a start time and a value the normalizer accepts: a start
\* time string that parses and a value that float() takes
ValidStartAndValue(item) ==
    /\ item.k = "dict"
    /\ item.v.startTime.k = "str"
    /\ ParseIso(item.v.startTime.v).k # "raise"
    /\ item.v.value.k \notin {"absent", "null"}
    /\ ToFloat(item.v.value).k # "raise"

\* whether e is the end time the Row of a record is to carry: the start time
\* when the record has no end time, the parsed end time when it is a string
\* (parsed by the rule of the start time); an end time that is no string is
\* left open
ExpectedEnd(item, e) ==
    CASE item.v.endTime.k \in {"absent", "null"} -> e = ParseIso(item.v.startTime.v)
      [] item.v.endTime.k = "str" /\ Truthy(item.v.endTime) -> e = ParseIso(item.v.endTime.v)
      [] OTHER -> TRUE

\* C11: every record with a valid start time and value has its Row in the
\* output, whatever its end time is, and that Row carries the end time parsed
\* by the rule of the start time, or the start time when there is no end time.
C11_EndTime ==
    (pc = "done" /\ result = Returned) =>
      \A i \in 1..Len(raw) : ValidStartAndValue(raw[i]) =>
         \E j \in 1..Len(rows) :
            /\ rows[j].start_time = ParseIso(raw[i].v.startTime.v)
            /\ rows[j].value = ToFloat(raw[i].v.value)
            /\ ExpectedEnd(raw[i], rows[j].end_time)

\* the number of events of kind e so far
EventCount(e) == Cardinality({i \in 1..Len(events) : events[i].e = e})

\* C12: requests and delays alternate strictly.  The first event is the
\* request for page 1; a request is followed by its own response and by
\* nothing else; a delay comes only right after the response to page p, is
\* the only delay there, and is followed only by the request for page p + 1;
\* once the call is over the last event is a response (no delay after the
\* final page or after a failed request); and never more than one request is
\* without its response, which is the case exactly while urlopen is running.
C12_RequestsAndDelaysAlternate ==
    /\ events # <<>> => events[1] = Event("request", 1)
    /\ \A i \in 2..Len(events) :
         CASE events[i].e = "request" ->
                events[i - 1] = Event("sleep", events[i].page)
           [] events[i].e = "response" ->
                events[i - 1] = Event("request", events[i].page)
           [] events[i].e = "sleep" ->
                events[i - 1] = Event("response", events[i].page - 1)
    /\ (FetchOver /\ events # <<>>) => events[Len(events)].e = "response"
    /\ pc = "sleep" => events[Len(events)].e = "response"
    /\ pc = "request" => (events = <<>> \/ events[Len(events)].e = "sleep")
    /\ EventCount("request") - EventCount("response") = (IF pc = "inflight" THEN 1 ELSE 0)
    /\ EventCount("request") = Len(requests)

C12_Witness ==
    /\ pc = "done"
    /\ result.status = "raised"
    /\ events = <<Event("request", 1), Event("response", 1), Event("sleep", 2),
                  Event("request", 2), Event("response", 2), Event("sleep", 3),
                  Event("request", 3), Event("response", 3)>>

\* out is a page whose pagination object reports an integer lastPage
ReportsInteger(out) ==
    /\ IsPage(out)
    /\ out.body.v.v.pagination.k = "dict"
    /\ out.body.v.v.pagination.v.lastPage.k = "int"

\* the lastPage a page counts for: the integer it reports, 1 when it has no
\* pagination metadata
CountedLastPage(out) ==
    IF ReportsInteger(out)
    THEN CHOOSE n \in (-1)..MaxLastPage : out.body.v.v.pagination.v.lastPage = PyInt(n)
    ELSE 1

\* the largest lastPage any response has reported so far, at least 1
LargestLastPage ==
    LET reported == {1} \cup {CountedLastPage(log[i]) :
                               i \in {j \in 1..Len(log) : ReportsInteger(log[j])}}
    IN CHOOSE m \in reported : \A n \in reported : n <= m

\* C13 (what a finite run can show of it): the call ends successfully at the
\* first page p whose own response reports lastPage <= p, zero and negative
\* values included, whatever the earlier pages reported; a page reporting a
\* larger lastPage does not end it; and the number of requests never exceeds
\* the largest lastPage any response has reported (1 at least), which is
\* what bounds the loop.
C13_StopsAtLastPage ==
    /\ \A i \in 1..Len(log) :
         (ReportsInteger(log[i]) \/ NoPaginationMetadata(log[i])) =>
            IF CountedLastPage(log[i]) <= i
            THEN /\ Len(log) = i
                 /\ FetchOver
                 /\ raw = ConcatData(log)
                 /\ result.exc \notin FingridErrors
            ELSE Len(log) > i \/ pc \in {"sleep", "request", "inflight"}
    /\ Len(requests) <= LargestLastPage

(* ------------------------------ format_table --------------------------- *)

\* a // b of Python for b > 0: the floor of the quotient
FloorDiv(a, b) == IF a >= 0 THEN a \div b ELSE -(((-a) + b - 1) \div b)

\* s[:k]
SliceTo(s, k) ==
    LET n == Len(s)
        stop == IF k < 0 THEN (IF n + k < 0 THEN 0 ELSE n + k)
                ELSE (IF k > n THEN n ELSE k)
    IN SubSeq(s, 1, stop)

\* s[k:]
SliceFrom(s, k) ==
    LET n == Len(s)
        start == IF k < 0 THEN (IF n + k < 0 THEN 0 ELSE n + k)
                 ELSE (IF k > n THEN n ELSE k)
    IN SubSeq(s, start + 1, n)

\* str(t)[:19] if t else "": for a datetime the date and the time to the
\* second, without fraction and UTC offset
TimeText(t) == IF ~Truthy(t) THEN "" ELSE Take(ToStr(t).v, 19)

\* f"{v:.2f}" of a finite float: the decimal of two places nearest to its
\* value, a tie to the even one
Fixed2(x) ==
    LET h == <<0, 0, 0>> \o RoundedAt(x, 2)
    IN (IF x.neg THEN "-" ELSE "")
       \o DigitText(Magnitude(SubSeq(h, 1, Len(h) - 3), <<>>).i)
       \o DigitText(SubSeq(h, Len(h) - 2, Len(h) - 2)) \o "."
       \o DigitText(SubSeq(h, Len(h) - 1, Len(h)))

\* f"{v:.2f}" for a number, which makes a float of an int first and raises
\* the OverflowError of that, and str(v) for anything else
ValueText(v) ==
    CASE v.k \in {"int", "bool"} ->
            (LET f == ToFloat(v) IN IF f.k = "raise" THEN f ELSE PyStr(Fixed2(f.v)))
      [] v.k = "float" -> PyStr(Fixed2(v.v))
      [] v.k = "inf" -> PyStr(IF v.v < 0 THEN "-inf" ELSE "inf")
      [] v.k = "nan" -> PyStr("nan")
      [] OTHER -> ToStr(v)

Line(kind, text) == [k |-> kind, v |-> text]

\* row_to_str: the three columns of one table line, or the exception the
\* format of the value raised
row_to_str(r) ==
    LET line(start, end, value) ==
            IF value.k = "raise" THEN value
            ELSE Line("row", [start |-> start, end |-> end, value |-> value.v])
    IN line(TimeText(r.start_time), TimeText(r.end_time), ValueText(r.value))

\* format_table(rows, variable_label, max_rows): the lines of the str it
\* returns, or the exception of the first row_to_str call that raised
format_table(rs, label, maxrows) ==
    LET table(ls) ==
            IF \E i \in 1..Len(ls) : ls[i].k = "raise"
            THEN ls[LeastOr0({i \in 1..Len(ls) : ls[i].k = "raise"})]
            ELSE PyList(ls)
    IN
    IF rs = <<>> THEN PyList(<<Line("nodata", label)>>)
    ELSE table(
         <<Line("title", label), Line("blank", 0), Line("header", 0), Line("rule", 0)>>
         \o (IF Len(rs) <= maxrows
             THEN [i \in 1..Len(rs) |-> row_to_str(rs[i])]
             ELSE LET head == SliceTo(rs, FloorDiv(maxrows, 2))
                      tail == SliceFrom(rs, -FloorDiv(maxrows, 2))
                  IN [i \in 1..Len(head) |-> row_to_str(head[i])]
                     \o <<Line("dots", 0), Line("omitted", Len(rs) - maxrows), Line("dots", 0)>>
                     \o [i \in 1..Len(tail) |-> row_to_str(tail[i])])
         \o <<Line("blank", 0), Line("total", Len(rs))>>)

\* the lists that hold no element twice
Distinct(S) == {q \in S : \A i, j \in 1..Len(q) : q[i] = q[j] => i = j}

\* main has the rows of a one-page fetch and is about to print the table
InitTable ==
    /\ pc = "done"
    /\ variable \in {v \in VariableInputs : get_dataset_id(v) = "181"}
    /\ dataset_id = get_dataset_id(variable)
    /\ variable_label = LabelFor(variable, dataset_id)
    /\ api_key = PyStr("key")
    /\ page = 1
    /\ last_page = PyInt(1)
    /\ raw \in Distinct(SeqsUpTo(TableRecords, MaxTableRows))
    /\ all_data = raw
    /\ requests = <<BuildUrl(<<dataset_id>>, START_TIME, END_TIME, 1)>>
    /\ events = <<Event("request", 1), Event("response", 1)>>
    /\ log = <<SinglePage(raw)>>
    /\ rows = Normalize(raw, PyStr(dataset_id)).v
    /\ result = Returned
    /\ max_rows \in (-1)..(MaxTableRows + 1)
    /\ lines = <<>>

\* main: print(format_table(rows, variable_label, max_rows=args.max_rows))
FormatTable ==
    /\ pc = "done"
    /\ result = Returned
    /\ \E t \in {format_table(rows, variable_label, max_rows)} :
          IF t.k = "raise"
          THEN result' = Raised(t) /\ UNCHANGED <<pc, lines>>
          ELSE lines' = t.v /\ pc' = "printed" /\ UNCHANGED result
    /\ UNCHANGED <<variable, dataset_id, variable_label, api_key, page, last_page,
                   all_data, requests, events, log, raw, rows, max_rows>>

NextTable == FormatTable

SpecTable == InitTable /\ [][NextTable]_vars

\* the data lines of the table, in order
PrintedRows == SelectSeq(lines, LAMBDA l : l.k = "row")

\* the table lines of the first a and the last b rows
HeadAndTail(a, b) ==
    [i \in 1..a |-> row_to_str(rows[i])]
    \o [i \in 1..b |-> row_to_str(rows[Len(rows) - b + i])]

\* the numbers the table's "(N rows omitted)" lines give
OmittedNumbers == {lines[i].v : i \in {j \in 1..Len(lines) : lines[j].k = "omitted"}}

\* C14: for a non-empty row list and max_rows >= 0 the table shows every row
\* when len(rows) <= max_rows; otherwise it shows a leading and a trailing
\* rows, a + b <= max_rows and a + b < len(rows) (so no row twice), and its
\* omitted line gives len(rows) - (a + b).
C14_TableTruncation ==
    (pc = "printed" /\ rows # <<>> /\ max_rows >= 0) =>
      IF Len(rows) <= max_rows
      THEN PrintedRows = HeadAndTail(Len(rows), 0) /\ OmittedNumbers = {}
      ELSE \E a, b \in 0..Len(rows) :
              /\ a + b <= max_rows
              /\ a + b < Len(rows)
              /\ PrintedRows = HeadAndTail(a, b)
              /\ OmittedNumbers = {Len(rows) - (a + b)}

====
